---- MODULE Spec2Model ----
(***************************************************************************)
(* Spectra: the node store (BoltDB buckets with manual indexes), the       *)
(* procedural tree generator and the SpectraFS orchestrator, as a state    *)
(* machine.                                                                *)
(*                                                                         *)
(* Strings stand for Go strings.  A path is the string the code builds     *)
(* ("/", "/folder_1", "/folder_1/file_1.txt").  An index key               *)
(* "{parentID}|{nodeID}" is the pair <<parentID, nodeID>>: ids are "root"  *)
(* or UUIDs and hold no "|".  An ExistenceMap map[string]bool is the set   *)
(* of worlds it maps to true (a missing key reads false in Go).            *)
(*                                                                         *)
(* Each node carries one history field the code does not have, Batch: the  *)
(* number of the first UUID of the GenerateChildren call that made it, 0   *)
(* for a node no GenerateChildren call made.                                *)
(***************************************************************************)
EXTENDS Integers, Sequences, FiniteSets, TLC

VARIABLES
    db,        \* the four BoltDB buckets of DB.db
    rng,       \* SpectraFS.rng: state of the seeded random source
    nextUuid,  \* number of UUIDs uuid.New() has handed out
    pc,        \* per caller: where its SDK call stands
    local,     \* per caller: the local variables of its SDK call
    ret,       \* per caller: what its finished call returned
    calls,     \* number of SDK calls started so far
    call,      \* history: the last direct Store call and its error
    mu,        \* DB.mu: TRUE while the mutex is locked
    section    \* per caller: "out", or inside a method of DB between its
               \* Lock and its deferred Unlock (then where the caller was
               \* when it took the lock)

vars == <<db, rng, nextUuid, pc, local, ret, calls, call, mu, section>>

---------------------------------------------------------------------------
(* Bounds of the model *)

\* uuid.New() is called at most this many times in a run
MaxUuids == 4

\* the callers start at most this many SDK calls in a run
MaxCalls == 2

\* longest batch handed to BulkInsertNodes directly
MaxBatch == 2

\* the goroutines calling the SDK concurrently
Callers == {"c1", "c2"}

---------------------------------------------------------------------------
(* Configuration: types.Config as loaded by config.LoadFromFile *)

\* probability of a secondary world as a fraction num/den
cfg ==
    [Seed |-> [MaxDepth |-> 2, MinFolders |-> 0, MaxFolders |-> 1,
               MinFiles |-> 0, MaxFiles |-> 1, Seed |-> 0],
     SecondaryTables |-> [s1 |-> [num |-> 1, den |-> 2]]]

SecondaryWorlds == DOMAIN cfg.SecondaryTables

Worlds == {"primary"} \cup SecondaryWorlds

Nil == "nil"

NodeTypeFolder == "folder"

NodeTypeFile == "file"

\* the i-th UUID uuid.New() returns; UUIDs never repeat
Uuid(i) == "u" \o ToString(i)

---------------------------------------------------------------------------
(* Paths *)

\* filepath.Join(parent.Path, name) and utils.JoinPath(parent.Path, name) for
\* the path of a stored folder ("/" or "/a/b") and a name without separators
JoinPath(parentPath, name) ==
    IF parentPath = "/"
    THEN "/" \o name
    ELSE parentPath \o "/" \o name

---------------------------------------------------------------------------
(* BoltDB buckets *)

\* Bucket.Put on a key -> value bucket
Put(bucket, key, value) ==
    [k \in DOMAIN bucket \cup {key} |-> IF k = key THEN value ELSE bucket[k]]

\* Bucket.Delete on a key -> value bucket (a missing key is no error)
Delete(bucket, key) ==
    [k \in DOMAIN bucket \ {key} |-> bucket[k]]

EmptyBucket == [k \in {} |-> Nil]

EmptyDB ==
    [nodes |-> EmptyBucket,
     index_parent_id |-> {},
     index_path |-> EmptyBucket,
     index_parent_path |-> {}]

\* the root node both createRootNodeInternal and CreateRootNode build
RootNode ==
    [ID |-> "root", ParentID |-> "", Name |-> "root", Path |-> "/",
     ParentPath |-> "", Type |-> NodeTypeFolder, DepthLevel |-> 0,
     ExistenceMap |-> Worlds, Batch |-> 0]

\* the puts of one node into the four buckets, inside a transaction; bbolt's
\* Put refuses an empty key (ErrKeyRequired) and the function returns there,
\* with the earlier puts already made in the transaction
putNode(tx, node) ==
    IF node.ID = ""
    THEN [tx |-> tx, err |-> "ErrKeyRequired"]
    ELSE LET t1 == [tx EXCEPT !.nodes = Put(@, node.ID, node)]
             t2 == [t1 EXCEPT !.index_parent_id = @ \cup {<<node.ParentID, node.ID>>}]
         IN  IF node.Path = ""
             THEN [tx |-> t2, err |-> "ErrKeyRequired"]
             ELSE LET t3 == [t2 EXCEPT !.index_path = Put(@, node.Path, node.ID)]
                      t4 == [t3 EXCEPT !.index_parent_path =
                                           @ \cup {<<node.ParentPath, node.ID>>}]
                  IN  [tx |-> t4, err |-> Nil]

\* a DB.Update that keeps the writes of a failed transaction
Update_keepsFailed(d, r) == [db |-> r.tx, err |-> r.err]

\* bbolt DB.Update(fn): commit when fn returns nil, roll back otherwise
Update(d, r) ==
    IF r.err = Nil THEN [db |-> r.tx, err |-> Nil] ELSE [db |-> d, err |-> r.err]

\* DB.VerifyAndInitialize on a new database file: the buckets, then the root
createRootNodeInternal(d) == Update(d, putNode(d, RootNode))

InsertNode(d, node) == Update(d, putNode(d, node))

GetNodeByID(d, id) ==
    IF id \in DOMAIN d.nodes
    THEN [node |-> d.nodes[id], err |-> Nil]
    ELSE [node |-> Nil, err |-> "node not found"]

\* a BulkInsertNodes loop without the "already exists, skip" check
RECURSIVE bulkInsertLoop_noSkip(_, _)
bulkInsertLoop_noSkip(tx, nodes) ==
    IF nodes = <<>>
    THEN [tx |-> tx, err |-> Nil]
    ELSE LET r == putNode(tx, Head(nodes))
         IN  IF r.err # Nil THEN r ELSE bulkInsertLoop_noSkip(r.tx, Tail(nodes))

\* the loop of BulkInsertNodes inside its one transaction: skip a node whose
\* id is already in the nodes bucket, put the others, stop at the first error
RECURSIVE bulkInsertLoop(_, _)
bulkInsertLoop(tx, nodes) ==
    IF nodes = <<>>
    THEN [tx |-> tx, err |-> Nil]
    ELSE LET node == Head(nodes)
         IN  IF node.ID \in DOMAIN tx.nodes
             THEN bulkInsertLoop(tx, Tail(nodes))
             ELSE LET r == putNode(tx, node)
                  IN  IF r.err # Nil THEN r ELSE bulkInsertLoop(r.tx, Tail(nodes))

BulkInsertNodes(d, nodes) ==
    IF Len(nodes) = 0
    THEN [db |-> d, err |-> Nil]
    ELSE Update(d, bulkInsertLoop(d, nodes))

\* a DeleteNode that deletes the record and leaves the index entries
DeleteNode_recordOnly(d, id) ==
    IF id \notin DOMAIN d.nodes
    THEN [db |-> d, err |-> "node not found"]
    ELSE [db |-> [d EXCEPT !.nodes = Delete(@, id)], err |-> Nil]

DeleteNode(d, id) ==
    IF id \notin DOMAIN d.nodes
    THEN [db |-> d, err |-> "node not found"]
    ELSE LET node == d.nodes[id]
         IN  [db |-> [nodes |-> Delete(d.nodes, id),
                      index_parent_id |-> d.index_parent_id \ {<<node.ParentID, node.ID>>},
                      index_path |-> Delete(d.index_path, node.Path),
                      index_parent_path |->
                          d.index_parent_path \ {<<node.ParentPath, node.ID>>}],
              err |-> Nil]

DeleteAllNodes(d) == [db |-> EmptyDB, err |-> Nil]

\* DB.VerifyAndInitialize on an existing database file whose buckets exist:
\* the root is created only if rootNodeExists finds none
VerifyAndInitialize(d) ==
    IF "root" \in DOMAIN d.nodes
    THEN [db |-> d, err |-> Nil]
    ELSE createRootNodeInternal(d)

\* a CreateRootNode that writes the root whether or not one is stored
CreateRootNode_overwrites(d) == Update(d, putNode(d, RootNode))

\* a CreateRootNode whose root exists in the primary world only
CreateRootNode_primaryOnly(d) ==
    IF "root" \in DOMAIN d.nodes
    THEN [db |-> d, err |-> Nil]
    ELSE Update(d, putNode(d, [RootNode EXCEPT !.ExistenceMap = {"primary"}]))

CreateRootNode(d) ==
    IF "root" \in DOMAIN d.nodes
    THEN [db |-> d, err |-> Nil]
    ELSE Update(d, putNode(d, RootNode))

\* an UpdateExistenceMap that stores the updated node as InsertNode does,
\* index entries included
UpdateExistenceMap_reinserts(d, id, existenceMap) ==
    IF id \notin DOMAIN d.nodes
    THEN [db |-> d, err |-> "node not found"]
    ELSE Update(d, putNode(d, [d.nodes[id] EXCEPT !.ExistenceMap = existenceMap]))

UpdateExistenceMap(d, id, existenceMap) ==
    IF id \notin DOMAIN d.nodes
    THEN [db |-> d, err |-> "node not found"]
    ELSE [db |-> [d EXCEPT !.nodes[id].ExistenceMap = existenceMap], err |-> Nil]

GetNodeByPath(d, path, world) ==
    IF path \notin DOMAIN d.index_path
    THEN [node |-> Nil, err |-> "node not found"]
    ELSE LET nodeID == d.index_path[path]
         IN  IF nodeID \notin DOMAIN d.nodes
             THEN [node |-> Nil, err |-> "node not found"]
             ELSE IF world # "" /\ world \notin d.nodes[nodeID].ExistenceMap
                  THEN [node |-> Nil, err |-> "node not found"]
                  ELSE [node |-> d.nodes[nodeID], err |-> Nil]

\* the cursor loop over index_parent_id with prefix "{parentID}|": the
\* records of the indexed ids that are stored and exist in world
scanChildren(d, parentID, world) ==
    {d.nodes[k[2]] : k \in {e \in d.index_parent_id :
                              /\ e[1] = parentID
                              /\ e[2] # ""
                              /\ e[2] \in DOMAIN d.nodes
                              /\ world \in d.nodes[e[2]].ExistenceMap}}

---------------------------------------------------------------------------
(* Ordering of query results *)

\* the names the generator and the callers use, in Go's string order
\* ("a" < "file_..." < "folder_..." < "root")
NameOrder ==
    <<"a">> \o [i \in 1..(cfg.Seed.MaxFiles + 1) |-> "file_" \o ToString(i) \o ".txt"]
            \o [i \in 1..(cfg.Seed.MaxFolders + 1) |-> "folder_" \o ToString(i)]
            \o <<"root">>

NameRank(name) == CHOOSE i \in 1..Len(NameOrder) : NameOrder[i] = name

\* Go's string comparison a < b on node types: "file" < "folder"
TypeLess(a, b) == a = NodeTypeFile /\ b = NodeTypeFolder

\* the less function of sort.Slice in GetChildrenByParentID
childLess(x, y) ==
    IF x.Type # y.Type
    THEN TypeLess(x.Type, y.Type)
    ELSE NameRank(x.Name) < NameRank(y.Name)

\* the less function of sort.Slice in GetParentAndChildren
parentFirstLess(x, y, parentID) ==
    IF x.ID = parentID /\ y.ID # parentID THEN TRUE
    ELSE IF x.ID # parentID /\ y.ID = parentID THEN FALSE
    ELSE childLess(x, y)

\* every order sort.Slice (not stable) may leave the nodes of S in
RECURSIVE sortSlice(_, _)
sortSlice(S, parentID) ==
    IF S = {}
    THEN {<<>>}
    ELSE UNION {{<<m>> \o t : t \in sortSlice(S \ {m}, parentID)} :
                m \in {x \in S : \A y \in S : ~parentFirstLess(y, x, parentID)}}

\* GetChildrenByParentID: the sorted results it may return ("" is no node id,
\* so the comparison falls to childLess)
GetChildrenByParentID(d, parentID, world) ==
    sortSlice(scanChildren(d, parentID, world), "")

\* GetParentAndChildren: the sorted results it may return.  The parent, when
\* stored and in world, is appended before the scan and sorts first; a child
\* that is its own parent is appended again by the scan and sorts next to it
GetParentAndChildren(d, parentID, world) ==
    LET parent == IF parentID \in DOMAIN d.nodes /\ world \in d.nodes[parentID].ExistenceMap
                  THEN <<d.nodes[parentID]>>
                  ELSE <<>>
    IN  {parent \o children :
            children \in sortSlice(scanChildren(d, parentID, world), parentID)}

\* CheckChildrenExist
CheckChildrenExist(d, parentID, world) == scanChildren(d, parentID, world) # {}

---------------------------------------------------------------------------
(* The seeded random source (generator.RNG over math/rand) *)

\* the source is a deterministic stream: a full-period linear congruential
\* generator over nine states stands for math/rand's
RngStates == 0..8

NewRNG(seed) == seed % 9

rngStep(x) == (4 * x + 1) % 9

\* rng.Intn(n): a value in 0..n-1 and the advanced source
Intn(x, n) == [v |-> rngStep(x) % n, rng |-> rngStep(x)]

\* rng.Float64(): the roll v/9 in [0, 1) and the advanced source
Float64(x) == [v |-> rngStep(x), rng |-> rngStep(x)]

\* roll <= probability, for the roll v/9 and the probability num/den
rollLE(v, probability) == v * probability.den <= probability.num * 9

RECURSIVE rngSkip(_, _)
rngSkip(x, n) == IF n = 0 THEN x ELSE rngSkip(rngStep(x), n - 1)

\* GenerateFileData draws one byte per Intn(256) call, 1024 times; the
\* stream has period 9, so 1024 draws advance it as 1024 % 9 draws do
FileDataSize == 1024

GenerateFileData(x) == rngSkip(x, FileDataSize % 9)

---------------------------------------------------------------------------
(* The procedural tree generator *)

\* the orders a Go range over a map with these keys may take
RECURSIVE rangeOrders(_)
rangeOrders(S) ==
    IF S = {}
    THEN {<<>>}
    ELSE UNION {{<<w>> \o t : t \in rangeOrders(S \ {w})} : w \in S}

\* existence rolls that leave the loop at the first world rolled true
RECURSIVE rollWorlds_stopAtFirst(_, _, _, _)
rollWorlds_stopAtFirst(order, x, existenceMap, conf) ==
    IF order = <<>>
    THEN [ExistenceMap |-> existenceMap, rng |-> x]
    ELSE LET roll == Float64(x)
             worldName == Head(order)
         IN  IF rollLE(roll.v, conf.SecondaryTables[worldName])
             THEN [ExistenceMap |-> existenceMap \cup {worldName}, rng |-> roll.rng]
             ELSE rollWorlds_stopAtFirst(Tail(order), roll.rng, existenceMap, conf)

\* generateFolder / generateFile: "for worldName, probability := range
\* cfg.SecondaryTables { roll := rng.Float64(); if roll <= probability {...} }"
RECURSIVE rollWorlds(_, _, _, _)
rollWorlds(order, x, existenceMap, conf) ==
    IF order = <<>>
    THEN [ExistenceMap |-> existenceMap, rng |-> x]
    ELSE LET roll == Float64(x)
             worldName == Head(order)
         IN  rollWorlds(Tail(order), roll.rng,
                        IF rollLE(roll.v, conf.SecondaryTables[worldName])
                        THEN existenceMap \cup {worldName}
                        ELSE existenceMap,
                        conf)

\* a generateFolder that joins the name to the root's path
generateFolder_underRoot(parent, index, depth, x, nodeID, batch, conf) ==
    {LET e == rollWorlds(order, x, {"primary"}, conf)
         name == "folder_" \o ToString(index)
     IN  [node |-> [ID |-> nodeID, ParentID |-> parent.ID, Name |-> name,
                    Path |-> JoinPath("/", name), ParentPath |-> "",
                    Type |-> NodeTypeFolder, DepthLevel |-> depth,
                    ExistenceMap |-> e.ExistenceMap, Batch |-> batch],
          rng |-> e.rng] : order \in rangeOrders(DOMAIN conf.SecondaryTables)}

\* generateFolder: the folders it may return (one per range order) with the
\* advanced source
generateFolder(parent, index, depth, x, nodeID, batch, conf) ==
    {LET e == rollWorlds(order, x, {"primary"}, conf)
         name == "folder_" \o ToString(index)
     IN  [node |-> [ID |-> nodeID, ParentID |-> parent.ID, Name |-> name,
                    Path |-> JoinPath(parent.Path, name), ParentPath |-> "",
                    Type |-> NodeTypeFolder, DepthLevel |-> depth,
                    ExistenceMap |-> e.ExistenceMap, Batch |-> batch],
          rng |-> e.rng] : order \in rangeOrders(DOMAIN conf.SecondaryTables)}

\* generateFile: the file data is drawn first, then the worlds are rolled
generateFile(parent, index, depth, x, nodeID, batch, conf) ==
    {LET e == rollWorlds(order, GenerateFileData(x), {"primary"}, conf)
         name == "file_" \o ToString(index) \o ".txt"
     IN  [node |-> [ID |-> nodeID, ParentID |-> parent.ID, Name |-> name,
                    Path |-> JoinPath(parent.Path, name), ParentPath |-> "",
                    Type |-> NodeTypeFile, DepthLevel |-> depth,
                    ExistenceMap |-> e.ExistenceMap, Batch |-> batch],
          rng |-> e.rng] : order \in rangeOrders(DOMAIN conf.SecondaryTables)}

\* the loop "for i := 0; i < count; i++" of GenerateChildren over one kind:
\* from [children, rng] to the set of [children, rng] after indexes i+1..count
RECURSIVE generateLoop(_, _, _, _, _, _, _, _)
generateLoop(isFolder, parent, i, count, depth, acc, uuid0, conf) ==
    IF i >= count
    THEN {acc}
    ELSE LET nodeID == Uuid(uuid0 + Len(acc.children) + 1)
             made == IF isFolder
                     THEN generateFolder(parent, i + 1, depth + 1, acc.rng, nodeID,
                                         uuid0 + 1, conf)
                     ELSE generateFile(parent, i + 1, depth + 1, acc.rng, nodeID,
                                       uuid0 + 1, conf)
         IN  UNION {generateLoop(isFolder, parent, i + 1, count, depth,
                                 [children |-> Append(acc.children, m.node),
                                  rng |-> m.rng, err |-> Nil], uuid0, conf) : m \in made}

\* a GenerateChildren that draws the file count and the files before the
\* folders
GenerateChildren_filesFirst(parent, depth, x, uuid0, conf) ==
    IF depth >= conf.Seed.MaxDepth
    THEN {[children |-> <<>>, rng |-> x, err |-> Nil]}
    ELSE LET fl == Intn(x, conf.Seed.MaxFiles - conf.Seed.MinFiles + 1)
             fileCount == fl.v + conf.Seed.MinFiles
             files == generateLoop(FALSE, parent, 0, fileCount, depth,
                                   [children |-> <<>>, rng |-> fl.rng, err |-> Nil],
                                   uuid0, conf)
         IN  UNION {LET fc == Intn(f.rng, conf.Seed.MaxFolders - conf.Seed.MinFolders + 1)
                        folderCount == fc.v + conf.Seed.MinFolders
                    IN  generateLoop(TRUE, parent, 0, folderCount, depth,
                                     [children |-> f.children, rng |-> fc.rng,
                                      err |-> Nil], uuid0, conf)
                    : f \in files}

\* GenerateChildren below max depth: the folder count and the folders, then
\* the file count and the files, all from the one source
generateKinds(parent, depth, x, uuid0, conf) ==
    LET fc == Intn(x, conf.Seed.MaxFolders - conf.Seed.MinFolders + 1)
        folderCount == fc.v + conf.Seed.MinFolders
        folders == generateLoop(TRUE, parent, 0, folderCount, depth,
                                [children |-> <<>>, rng |-> fc.rng, err |-> Nil],
                                uuid0, conf)
    IN  UNION {LET fl == Intn(f.rng, conf.Seed.MaxFiles - conf.Seed.MinFiles + 1)
                   fileCount == fl.v + conf.Seed.MinFiles
               IN  generateLoop(FALSE, parent, 0, fileCount, depth,
                                [children |-> f.children, rng |-> fl.rng,
                                 err |-> Nil], uuid0, conf)
               : f \in folders}

\* a GenerateChildren that stops only past max depth
GenerateChildren_pastMaxDepth(parent, depth, x, uuid0, conf) ==
    IF depth > conf.Seed.MaxDepth
    THEN {[children |-> <<>>, rng |-> x, err |-> Nil]}
    ELSE generateKinds(parent, depth, x, uuid0, conf)

\* GenerateChildren(parent, depth, rng, cfg): the results [children, rng, err]
\* it may return when the source is in state x and uuid0 UUIDs are used up
GenerateChildren(parent, depth, x, uuid0, conf) ==
    IF depth >= conf.Seed.MaxDepth
    THEN {[children |-> <<>>, rng |-> x, err |-> Nil]}
    ELSE generateKinds(parent, depth, x, uuid0, conf)

---------------------------------------------------------------------------
(* SpectraFS: requests and their resolution *)

NoNode ==
    [ID |-> "", ParentID |-> "", Name |-> "", Path |-> "", ParentPath |-> "",
     Type |-> "", DepthLevel |-> 0, ExistenceMap |-> {}, Batch |-> 0]

\* parent, world, generated: local variables; name, TableName: what the
\* request of the call holds
NoLocal ==
    [parent |-> NoNode, world |-> "", name |-> "", TableName |-> "",
     generated |-> <<>>]

NoRet ==
    [op |-> "", Success |-> FALSE, err |-> Nil, Message |-> "",
     Folders |-> <<>>, Files |-> <<>>, parentID |-> "", world |-> "", inserted |-> {}]

NoCall == [op |-> "", err |-> Nil]

\* the ids a caller may hold: the root's and every UUID handed out so far
KnownIDs == {"root"} \cup {Uuid(i) : i \in 1..nextUuid}

\* the requests a caller may send: by id, by path and world, neither, or
\* both; the fields are ID/ParentID, Path/ParentPath and TableName of the
\* request types
Requests ==
    {[ID |-> i, Path |-> "", TableName |-> t] :
        i \in KnownIDs, t \in {""} \cup Worlds}
    \cup {[ID |-> "", Path |-> q, TableName |-> t] :
        q \in DOMAIN db.index_path \cup {"/a", ""}, t \in {""} \cup Worlds}
    \cup {[ID |-> i, Path |-> "/a", TableName |-> "primary"] : i \in KnownIDs}

\* a validation that takes a path without a world
ValidateIdentifier_pathOnly(req) ==
    IF req.ID # "" \/ req.Path # "" THEN Nil
    ELSE "either ID or (Path + TableName) must be provided"

\* ValidateNodeIdentifier and ValidateParentIdentifier
ValidateIdentifier(req) ==
    IF req.ID # "" THEN Nil
    ELSE IF req.Path # "" /\ req.TableName # "" THEN Nil
    ELSE "either ID or (Path + TableName) must be provided"

\* a resolveNodeAndWorld that leaves an empty world empty
resolveNodeAndWorld_noDefault(d, req) ==
    IF req.ID # ""
    THEN [node |-> GetNodeByID(d, req.ID).node, world |-> req.TableName,
          err |-> GetNodeByID(d, req.ID).err]
    ELSE IF req.Path # ""
    THEN [node |-> GetNodeByPath(d, req.Path, req.TableName).node,
          world |-> req.TableName,
          err |-> GetNodeByPath(d, req.Path, req.TableName).err]
    ELSE [node |-> Nil, world |-> "", err |-> "either id or path must be specified"]

\* resolveNodeAndWorld: one Store call, by id or by path
resolveNodeAndWorld(d, req) ==
    LET world == IF req.TableName = "" THEN "primary" ELSE req.TableName
    IN  IF req.ID # ""
        THEN [node |-> GetNodeByID(d, req.ID).node, world |-> world,
              err |-> GetNodeByID(d, req.ID).err]
        ELSE IF req.Path # ""
        THEN [node |-> GetNodeByPath(d, req.Path, world).node, world |-> world,
              err |-> GetNodeByPath(d, req.Path, world).err]
        ELSE [node |-> Nil, world |-> "", err |-> "either id or path must be specified"]

\* SpectraFS.rng is read and written without a lock: while another caller is
\* at a step that uses it too, the accesses race and the source may be found
\* in any state
rngUsers == {"lc_generate", "cf_insert", "uf_insert", "reset_root"}

rngSeen(c) ==
    IF \E o \in Callers \ {c} : pc[o] \in rngUsers THEN RngStates ELSE {rng}

\* the children of a ListResult: folders and files apart, in order
RECURSIVE selectType(_, _)
selectType(nodes, type) ==
    IF nodes = <<>> THEN <<>>
    ELSE IF Head(nodes).Type = type
         THEN <<Head(nodes)>> \o selectType(Tail(nodes), type)
         ELSE selectType(Tail(nodes), type)

\* a filter that keeps every generated node, whatever its worlds
selectWorld_unfiltered(nodes, world) == nodes

RECURSIVE selectWorld(_, _)
selectWorld(nodes, world) ==
    IF nodes = <<>> THEN <<>>
    ELSE IF world \in Head(nodes).ExistenceMap
         THEN <<Head(nodes)>> \o selectWorld(Tail(nodes), world)
         ELSE selectWorld(Tail(nodes), world)

NodeIDs(nodes) == {nodes[i].ID : i \in 1..Len(nodes)}

\* a ListChildren failure returned as a Go error, with no result
listFailure_asError(message) ==
    [NoRet EXCEPT !.op = "ListChildren", !.Success = FALSE, !.err = message]

listFailure(message) ==
    [NoRet EXCEPT !.op = "ListChildren", !.Success = FALSE, !.Message = message]

listSuccess(parentID, world, children, message, inserted) ==
    [op |-> "ListChildren", Success |-> TRUE, err |-> Nil, Message |-> message,
     Folders |-> selectType(children, NodeTypeFolder),
     Files |-> selectType(children, NodeTypeFile),
     parentID |-> parentID, world |-> world, inserted |-> inserted]

---------------------------------------------------------------------------
(* SpectraFS.ListChildren, one action per Store call or generator call *)

\* validation and resolveNodeAndWorld
ListChildrenResolve(c, req) ==
    /\ pc[c] = "idle"
    /\ calls < MaxCalls
    /\ calls' = calls + 1
    /\ LET r == resolveNodeAndWorld(db, req)
       IN  IF ValidateIdentifier(req) # Nil
           THEN /\ ret' = [ret EXCEPT ![c] = listFailure("invalid request")]
                /\ pc' = [pc EXCEPT ![c] = "done"]
                /\ local' = local
           ELSE IF r.err # Nil
           THEN /\ ret' = [ret EXCEPT ![c] = listFailure("Parent node not found")]
                /\ pc' = [pc EXCEPT ![c] = "done"]
                /\ local' = local
           ELSE IF r.world \notin r.node.ExistenceMap
           THEN /\ ret' = [ret EXCEPT ![c] =
                              listSuccess(r.node.ID, r.world, <<>>,
                                          "Node does not exist in world", {})]
                /\ pc' = [pc EXCEPT ![c] = "done"]
                /\ local' = local
           ELSE /\ local' = [local EXCEPT ![c] =
                                [NoLocal EXCEPT !.parent = r.node, !.world = r.world,
                                                !.TableName = req.TableName]]
                /\ pc' = [pc EXCEPT ![c] = "lc_query"]
                /\ ret' = ret
    /\ UNCHANGED <<db, rng, nextUuid, call, mu, section>>

\* GetParentAndChildren; "children = nodes[1:]"
ListChildrenQuery(c) ==
    /\ pc[c] = "lc_query"
    /\ \E nodes \in GetParentAndChildren(db, local[c].parent.ID, local[c].world) :
          LET children == IF Len(nodes) > 0 THEN Tail(nodes) ELSE <<>>
          IN  IF Len(children) = 0
              THEN /\ pc' = [pc EXCEPT ![c] = "lc_generate"]
                   /\ UNCHANGED <<ret, local>>
              ELSE /\ ret' = [ret EXCEPT ![c] =
                                 listSuccess(local[c].parent.ID, local[c].world, children,
                                             "Children retrieved successfully", {})]
                   /\ pc' = [pc EXCEPT ![c] = "done"]
                   /\ local' = [local EXCEPT ![c] = NoLocal]
    /\ UNCHANGED <<db, rng, nextUuid, calls, call, mu, section>>

\* generator.GenerateChildren(parent, parent.DepthLevel, s.rng, s.cfg)
ListChildrenGenerate(c) ==
    /\ pc[c] = "lc_generate"
    /\ \E x \in rngSeen(c) :
       \E g \in GenerateChildren(local[c].parent, local[c].parent.DepthLevel, x,
                                   nextUuid, cfg) :
          /\ nextUuid + Len(g.children) <= MaxUuids
          /\ local' = [local EXCEPT ![c].generated = g.children]
          /\ rng' = g.rng
          /\ nextUuid' = nextUuid + Len(g.children)
    /\ pc' = [pc EXCEPT ![c] = "lc_insert"]
    /\ UNCHANGED <<db, ret, calls, call, mu, section>>

\* BulkInsertNodes(generated), then the filter by world and the result
ListChildrenInsert(c) ==
    /\ pc[c] = "lc_insert"
    /\ LET r == BulkInsertNodes(db, local[c].generated)
       IN  /\ db' = r.db
           /\ ret' = [ret EXCEPT ![c] =
                        IF r.err # Nil
                        THEN listFailure("Failed to bulk insert nodes")
                        ELSE listSuccess(local[c].parent.ID, local[c].world,
                                         selectWorld(local[c].generated, local[c].world),
                                         "Children retrieved successfully",
                                         NodeIDs(local[c].generated) \ DOMAIN db.nodes)]
    /\ pc' = [pc EXCEPT ![c] = "done"]
    /\ local' = [local EXCEPT ![c] = NoLocal]
    /\ UNCHANGED <<rng, nextUuid, calls, call, mu, section>>

\* the call returns to its caller
Return(c) ==
    /\ pc[c] = "done"
    /\ pc' = [pc EXCEPT ![c] = "idle"]
    /\ ret' = [ret EXCEPT ![c] = NoRet]
    /\ UNCHANGED <<db, rng, nextUuid, local, calls, call, mu, section>>

---------------------------------------------------------------------------
(* SpectraFS.CreateFolder and SpectraFS.UploadFile *)

\* the name callers give: one the generator uses too
UserNames == {"folder_1"}

\* "for worldName, probability := range s.cfg.SecondaryTables": false when the
\* parent is not in the world (no roll), else a roll of s.rng
RECURSIVE rollUnderParent(_, _, _, _)
rollUnderParent(order, x, parent, existenceMap) ==
    IF order = <<>>
    THEN [ExistenceMap |-> existenceMap, rng |-> x]
    ELSE LET worldName == Head(order)
             roll == Float64(x)
         IN  IF worldName \notin parent.ExistenceMap
             THEN rollUnderParent(Tail(order), x, parent, existenceMap)
             ELSE rollUnderParent(Tail(order), roll.rng, parent,
                                  IF rollLE(roll.v, cfg.SecondaryTables[worldName])
                                  THEN existenceMap \cup {worldName}
                                  ELSE existenceMap)

createFailure(op, err) == [NoRet EXCEPT !.op = op, !.err = err]

\* validation, the name check and resolveNodeAndWorld of both operations
createResolve(c, op, next, req, name, dataLen) ==
    /\ pc[c] = "idle"
    /\ calls < MaxCalls
    /\ calls' = calls + 1
    /\ nextUuid < MaxUuids
    /\ LET r == resolveNodeAndWorld(db, req)
           err == IF ValidateIdentifier(req) # Nil THEN ValidateIdentifier(req)
                  ELSE IF name = "" THEN "name is required"
                  ELSE IF dataLen = 0 THEN "data is required"
                  ELSE IF r.err # Nil THEN "failed to get parent node"
                  ELSE IF r.node.Type # NodeTypeFolder THEN "parent is not a folder"
                  ELSE Nil
       IN  IF err # Nil
           THEN /\ ret' = [ret EXCEPT ![c] = createFailure(op, err)]
                /\ pc' = [pc EXCEPT ![c] = "done"]
                /\ local' = local
           ELSE /\ local' = [local EXCEPT ![c] =
                                [NoLocal EXCEPT !.parent = r.node, !.name = name]]
                /\ pc' = [pc EXCEPT ![c] = next]
                /\ ret' = ret
    /\ UNCHANGED <<db, rng, nextUuid, call, mu, section>>

\* uuid.New(), the existence rolls, the node and InsertNode of both operations
createInsert(c, op, at, type) ==
    /\ pc[c] = at
    /\ nextUuid < MaxUuids
    /\ \E x \in rngSeen(c), order \in rangeOrders(SecondaryWorlds) :
          LET parent == local[c].parent
              e == rollUnderParent(order, x, parent, {"primary"})
              node == [ID |-> Uuid(nextUuid + 1), ParentID |-> parent.ID,
                       Name |-> local[c].name,
                       Path |-> JoinPath(parent.Path, local[c].name),
                       ParentPath |-> parent.Path, Type |-> type,
                       DepthLevel |-> parent.DepthLevel + 1,
                       ExistenceMap |-> e.ExistenceMap, Batch |-> 0]
              r == InsertNode(db, node)
          IN  /\ db' = r.db
              /\ rng' = e.rng
              /\ ret' = [ret EXCEPT ![c] =
                           [NoRet EXCEPT !.op = op, !.Success = (r.err = Nil),
                                         !.err = r.err, !.parentID = parent.ID,
                                         !.inserted = IF r.err = Nil THEN {node.ID} ELSE {}]]
    /\ nextUuid' = nextUuid + 1
    /\ pc' = [pc EXCEPT ![c] = "done"]
    /\ local' = [local EXCEPT ![c] = NoLocal]
    /\ UNCHANGED <<calls, call, mu, section>>

CreateFolderResolve(c, req, name) ==
    createResolve(c, "CreateFolder", "cf_insert", req, name, 1)

CreateFolderInsert(c) == createInsert(c, "CreateFolder", "cf_insert", NodeTypeFolder)

UploadFileResolve(c, req, name, dataLen) ==
    createResolve(c, "UploadFile", "uf_insert", req, name, dataLen)

UploadFileInsert(c) == createInsert(c, "UploadFile", "uf_insert", NodeTypeFile)

---------------------------------------------------------------------------
(* SpectraFS.DeleteNode and SpectraFS.Reset *)

\* a DeleteNode without the check for the root
deleteError_noRootCheck(d, req) ==
    IF ValidateIdentifier(req) # Nil THEN ValidateIdentifier(req)
    ELSE IF resolveNodeAndWorld(d, req).err # Nil THEN "failed to resolve node"
    ELSE Nil

\* the error SpectraFS.DeleteNode returns before it calls the Store, if any
deleteError(d, req) ==
    IF ValidateIdentifier(req) # Nil THEN ValidateIdentifier(req)
    ELSE IF resolveNodeAndWorld(d, req).err # Nil THEN "failed to resolve node"
    ELSE IF resolveNodeAndWorld(d, req).node.ID = "root" THEN "cannot delete root node"
    ELSE Nil

DeleteNodeResolve(c, req) ==
    /\ pc[c] = "idle"
    /\ calls < MaxCalls
    /\ calls' = calls + 1
    /\ LET r == resolveNodeAndWorld(db, req)
           err == deleteError(db, req)
       IN  IF err # Nil
           THEN /\ ret' = [ret EXCEPT ![c] = createFailure("DeleteNode", err)]
                /\ pc' = [pc EXCEPT ![c] = "done"]
                /\ local' = local
           ELSE /\ local' = [local EXCEPT ![c] = [NoLocal EXCEPT !.parent = r.node]]
                /\ pc' = [pc EXCEPT ![c] = "dn_delete"]
                /\ ret' = ret
    /\ UNCHANGED <<db, rng, nextUuid, call, mu, section>>

DeleteNodeDelete(c) ==
    /\ pc[c] = "dn_delete"
    /\ LET r == DeleteNode(db, local[c].parent.ID)
       IN  /\ db' = r.db
           /\ ret' = [ret EXCEPT ![c] =
                        [NoRet EXCEPT !.op = "DeleteNode", !.Success = (r.err = Nil),
                                      !.err = r.err]]
    /\ pc' = [pc EXCEPT ![c] = "done"]
    /\ local' = [local EXCEPT ![c] = NoLocal]
    /\ UNCHANGED <<rng, nextUuid, calls, call, mu, section>>

\* s.db.DeleteAllNodes()
ResetDeleteAll(c) ==
    /\ pc[c] = "idle"
    /\ calls < MaxCalls
    /\ calls' = calls + 1
    /\ db' = DeleteAllNodes(db).db
    /\ pc' = [pc EXCEPT ![c] = "reset_root"]
    /\ UNCHANGED <<rng, nextUuid, local, ret, call, mu, section>>

\* a Reset that recreates the root and keeps the source as it is
ResetCreateRoot_keepsSource(c) ==
    /\ pc[c] = "reset_root"
    /\ LET r == CreateRootNode(db)
       IN  /\ db' = r.db
           /\ ret' = [ret EXCEPT ![c] =
                        [NoRet EXCEPT !.op = "Reset", !.Success = (r.err = Nil),
                                      !.err = r.err]]
    /\ pc' = [pc EXCEPT ![c] = "done"]
    /\ UNCHANGED <<rng, nextUuid, local, calls, call, mu, section>>

\* s.db.CreateRootNode(), then s.rng = generator.NewRNG(s.cfg.Seed.Seed)
ResetCreateRoot(c) ==
    /\ pc[c] = "reset_root"
    /\ LET r == CreateRootNode(db)
       IN  /\ db' = r.db
           /\ ret' = [ret EXCEPT ![c] =
                        [NoRet EXCEPT !.op = "Reset", !.Success = (r.err = Nil),
                                      !.err = r.err]]
    /\ rng' = NewRNG(cfg.Seed.Seed)
    /\ pc' = [pc EXCEPT ![c] = "done"]
    /\ UNCHANGED <<nextUuid, local, calls, call, mu, section>>

---------------------------------------------------------------------------
(* The program: NewSpectraFS, then callers using the SDK concurrently *)

\* NewSpectraFS on a new database file: db.New creates the buckets and the
\* root, NewRNG seeds the source
Init ==
    /\ db = createRootNodeInternal(EmptyDB).db
    /\ rng = NewRNG(cfg.Seed.Seed)
    /\ nextUuid = 0
    /\ pc = [c \in Callers |-> "idle"]
    /\ local = [c \in Callers |-> NoLocal]
    /\ ret = [c \in Callers |-> NoRet]
    /\ calls = 0
    /\ call = NoCall
    /\ mu = FALSE
    /\ section = [c \in Callers |-> "out"]

\* caller c starts an SDK call
Start(c) ==
    \/ \E req \in Requests : ListChildrenResolve(c, req)
    \/ \E req \in Requests, name \in UserNames \cup {""} :
          CreateFolderResolve(c, req, name)
    \/ \E req \in Requests, name \in UserNames \cup {""}, dataLen \in {0, 1} :
          UploadFileResolve(c, req, name, dataLen)
    \/ \E req \in Requests : DeleteNodeResolve(c, req)
    \/ ResetDeleteAll(c)

\* caller c goes on with the call it is in
Continue(c) ==
    \/ ListChildrenQuery(c)
    \/ ListChildrenGenerate(c)
    \/ ListChildrenInsert(c)
    \/ CreateFolderInsert(c)
    \/ UploadFileInsert(c)
    \/ DeleteNodeDelete(c)
    \/ ResetCreateRoot(c)
    \/ Return(c)

Next == \E c \in Callers : Start(c) \/ Continue(c)

Spec == Init /\ [][Next]_vars

\* the callers take turns: a caller starts a call only while no other caller
\* is inside one (a finished caller may still hold its result)
SeqNext ==
    \E c \in Callers :
        \/ /\ \A o \in Callers \ {c} : pc[o] \in {"idle", "done"}
           /\ Start(c)
        \/ Continue(c)

SeqSpec == Init /\ [][SeqNext]_vars

---------------------------------------------------------------------------
(* The Store used directly: package db's exported methods called one at a *)
(* time (each holds DB.mu for its whole body), with any arguments         *)

\* the node ids and the (parent id, path) pairs of the nodes handed to the
\* Store; "" is the zero value of a Go string
StoreIDs == {"", "u1", "u2"}

StorePlaces == {<<"root", "/a">>, <<"u1", "/b">>, <<"root", "">>}

storeNode(id, place) ==
    [ID |-> id, ParentID |-> place[1], Name |-> "a", Path |-> place[2],
     ParentPath |-> "", Type |-> NodeTypeFolder, DepthLevel |-> 1,
     ExistenceMap |-> Worlds, Batch |-> 0]

StoreNodes == {storeNode(id, place) : id \in StoreIDs, place \in StorePlaces}

\* the existence maps handed to UpdateExistenceMap, which takes any
\* map[string]bool: one without and one with a true "primary" entry
StoreMaps == {{"s1"}, Worlds}

StoreBatches == UNION {[1..n -> StoreNodes] : n \in 0..MaxBatch}

\* the record of a Store call: its arguments, its error and the buckets
\* before it
storeCall(op, nodes, id, err) ==
    [op |-> op, nodes |-> nodes, id |-> id, err |-> err, before |-> db]

StoreInsertNode(node) ==
    /\ call = NoCall
    /\ db' = InsertNode(db, node).db
    /\ call' = storeCall("InsertNode", <<node>>, node.ID, InsertNode(db, node).err)
    /\ UNCHANGED <<rng, nextUuid, pc, local, ret, calls, mu, section>>

StoreBulkInsertNodes(nodes) ==
    /\ call = NoCall
    /\ db' = BulkInsertNodes(db, nodes).db
    /\ call' = storeCall("BulkInsertNodes", nodes, "", BulkInsertNodes(db, nodes).err)
    /\ UNCHANGED <<rng, nextUuid, pc, local, ret, calls, mu, section>>

StoreDeleteNode(id) ==
    /\ call = NoCall
    /\ db' = DeleteNode(db, id).db
    /\ call' = storeCall("DeleteNode", <<>>, id, DeleteNode(db, id).err)
    /\ UNCHANGED <<rng, nextUuid, pc, local, ret, calls, mu, section>>

StoreUpdateExistenceMap(id, existenceMap) ==
    /\ call = NoCall
    /\ db' = UpdateExistenceMap(db, id, existenceMap).db
    /\ call' = storeCall("UpdateExistenceMap", <<>>, id,
                         UpdateExistenceMap(db, id, existenceMap).err)
    /\ UNCHANGED <<rng, nextUuid, pc, local, ret, calls, mu, section>>

StoreDeleteAllNodes ==
    /\ call = NoCall
    /\ db' = DeleteAllNodes(db).db
    /\ call' = storeCall("DeleteAllNodes", <<>>, "", DeleteAllNodes(db).err)
    /\ UNCHANGED <<rng, nextUuid, pc, local, ret, calls, mu, section>>

StoreCreateRootNode ==
    /\ call = NoCall
    /\ db' = CreateRootNode(db).db
    /\ call' = storeCall("CreateRootNode", <<>>, "root", CreateRootNode(db).err)
    /\ UNCHANGED <<rng, nextUuid, pc, local, ret, calls, mu, section>>

\* db.New on the database file again (the program is started once more)
StoreVerifyAndInitialize ==
    /\ call = NoCall
    /\ db' = VerifyAndInitialize(db).db
    /\ call' = storeCall("VerifyAndInitialize", <<>>, "root", VerifyAndInitialize(db).err)
    /\ UNCHANGED <<rng, nextUuid, pc, local, ret, calls, mu, section>>

\* the call has returned; the next one may start
StoreReturn ==
    /\ call # NoCall
    /\ call' = NoCall
    /\ UNCHANGED <<db, rng, nextUuid, pc, local, ret, calls, mu, section>>

StoreNext ==
    \/ \E node \in StoreNodes : StoreInsertNode(node)
    \/ \E nodes \in StoreBatches : StoreBulkInsertNodes(nodes)
    \/ \E id \in StoreIDs \cup {"root"} : StoreDeleteNode(id)
    \/ \E id \in StoreIDs \cup {"root"}, existenceMap \in StoreMaps :
          StoreUpdateExistenceMap(id, existenceMap)
    \/ StoreDeleteAllNodes
    \/ StoreCreateRootNode
    \/ StoreVerifyAndInitialize
    \/ StoreReturn

StoreSpec == Init /\ [][StoreNext]_vars

---------------------------------------------------------------------------
(* The generator used directly: two generators built from one seed and     *)
(* called in step with the same parent and depth                           *)

\* seeds: NewRNG maps them onto every state of the source
GenSeeds == RngStates

\* configurations with one and with two secondary worlds
GenTables ==
    {[s1 |-> [num |-> 1, den |-> 2]],
     [s1 |-> [num |-> 1, den |-> 2], s2 |-> [num |-> 1, den |-> 4]]}

\* (min_files, max_files)
GenFileBounds == {<<0, 0>>, <<0, 1>>, <<1, 1>>}

genConf(maxDepth, files, tables) ==
    [Seed |-> [MaxDepth |-> maxDepth, MinFolders |-> 0, MaxFolders |-> 1,
               MinFiles |-> files[1], MaxFiles |-> files[2], Seed |-> 0],
     SecondaryTables |-> tables]

GenConfigs ==
    {genConf(maxDepth, files, tables) :
        maxDepth \in 1..2, files \in GenFileBounds, tables \in GenTables}

\* the parents handed to GenerateChildren: the root and a folder under it
GenParents ==
    {RootNode,
     [RootNode EXCEPT !.ID = "u1", !.ParentID = "root", !.Name = "folder_1",
                      !.Path = "/folder_1", !.DepthLevel = 1,
                      !.ExistenceMap = {"primary"}]}

\* same configuration but for the file-count bounds
sameButFiles(a, b) ==
    /\ a.SecondaryTables = b.SecondaryTables
    /\ [a.Seed EXCEPT !.MinFiles = 0, !.MaxFiles = 0]
           = [b.Seed EXCEPT !.MinFiles = 0, !.MaxFiles = 0]

\* a generator: its configuration, its source, and its last call (the source
\* it started from, the parent and depth given, the children and error
\* returned)
generator(conf, x) ==
    [conf |-> conf, rng |-> x, from |-> x, parent |-> NoNode, depth |-> 0,
     children |-> <<>>, err |-> Nil, called |-> FALSE]

\* two generators from one seed, the second with any file-count bounds
GenInit ==
    /\ db = EmptyDB
    /\ rng = 0
    /\ nextUuid = 0
    /\ pc = [c \in Callers |-> "idle"]
    /\ ret = [c \in Callers |-> NoRet]
    /\ calls = 0
    /\ call = NoCall
    /\ mu = FALSE
    /\ section = [c \in Callers |-> "out"]
    /\ \E seed \in GenSeeds, conf1 \in GenConfigs :
       \E conf2 \in {k \in GenConfigs : sameButFiles(conf1, k)} :
          local = [c1 |-> generator(conf1, NewRNG(seed)),
                   c2 |-> generator(conf2, NewRNG(seed))]

\* generator g after GenerateChildren(parent, depth, rng, cfg) returned r
generated(g, parent, depth, r) ==
    [g EXCEPT !.rng = r.rng, !.from = g.rng, !.parent = parent, !.depth = depth,
              !.children = r.children, !.err = r.err, !.called = TRUE]

\* both generators are called with the same parent and depth
GenerateBoth(parent, depth) ==
    /\ calls < MaxCalls
    /\ calls' = calls + 1
    /\ \E r1 \in GenerateChildren(parent, depth, local["c1"].rng, 0, local["c1"].conf),
          r2 \in GenerateChildren(parent, depth, local["c2"].rng, 0, local["c2"].conf) :
          local' = [c1 |-> generated(local["c1"], parent, depth, r1),
                    c2 |-> generated(local["c2"], parent, depth, r2)]
    /\ UNCHANGED <<db, rng, nextUuid, pc, ret, call, mu, section>>

GenNext == \E parent \in GenParents, depth \in 0..2 : GenerateBoth(parent, depth)

GenSpec == GenInit /\ [][GenNext]_vars

---------------------------------------------------------------------------
(* Generation at most once *)

\* the nodes GenerateChildren made that are stored under parent id p
generatedUnder(p) ==
    {n \in {db.nodes[i] : i \in DOMAIN db.nodes} : n.ParentID = p /\ n.Batch # 0}

\* C1: in every reachable state the store holds, for one parent, the children
\* of at most one GenerateChildren call: any two stored generated nodes with
\* the same parent come from the same batch
C1_OneBatchPerParent ==
    \A p \in DOMAIN db.nodes :
        \A m, n \in generatedUnder(p) : m.Batch = n.Batch

\* caller c holds the result of a ListChildren call that stored children
insertedBatch(c) ==
    /\ pc[c] = "done"
    /\ ret[c].op = "ListChildren"
    /\ ret[c].Success
    /\ ret[c].inserted # {}

\* C2: two callers never both come back from ListChildren for the same parent
\* having each stored a batch of their own.  Stated for the primary world with
\* both batches still stored: every generated node exists in the primary
\* world, so a call that started after the other's insert would have found
\* its children, and the two calls must have overlapped
C2_NotBothInsert ==
    \A c, o \in Callers :
        (/\ c # o
         /\ insertedBatch(c)
         /\ insertedBatch(o)
         /\ ret[c].parentID = ret[o].parentID
         /\ ret[c].world = "primary"
         /\ ret[o].world = "primary"
         /\ ret[c].inserted \cup ret[o].inserted \subseteq DOMAIN db.nodes)
        => FALSE

\* C3: when the callers take turns and two of them hold the result of
\* ListChildren for the same parent in the same world, at most one of the two
\* calls stored a batch and both returned the same children
C3_SecondListSame ==
    \A c, o \in Callers :
        (/\ c # o
         /\ pc[c] = "done" /\ ret[c].op = "ListChildren" /\ ret[c].Success
         /\ pc[o] = "done" /\ ret[o].op = "ListChildren" /\ ret[o].Success
         /\ ret[c].parentID = ret[o].parentID
         /\ ret[c].world = ret[o].world)
        => /\ ret[c].inserted = {} \/ ret[o].inserted = {}
           /\ ret[c].Folders = ret[o].Folders
           /\ ret[c].Files = ret[o].Files

---------------------------------------------------------------------------
(* Consistency of the store and of existence maps *)

\* C4: a record is stored under id i exactly when the path index maps the
\* record's path to i and the parent index holds (the record's parent id, i):
\* every stored record has both entries, and every entry of either index
\* leads to a stored record with that path or that parent
C4_IndexesAgree ==
    /\ \A i \in DOMAIN db.nodes :
          /\ db.nodes[i].Path \in DOMAIN db.index_path
          /\ db.index_path[db.nodes[i].Path] = i
          /\ <<db.nodes[i].ParentID, i>> \in db.index_parent_id
    /\ \A q \in DOMAIN db.index_path :
          /\ db.index_path[q] \in DOMAIN db.nodes
          /\ db.nodes[db.index_path[q]].Path = q
    /\ \A e \in db.index_parent_id :
          /\ e[2] \in DOMAIN db.nodes
          /\ db.nodes[e[2]].ParentID = e[1]

\* C10: a stored node that GenerateChildren made exists in a secondary world
\* only if its parent, while stored, exists in that world
C10_ExistsOnlyUnderParent ==
    \A i \in DOMAIN db.nodes :
        (db.nodes[i].Batch # 0 /\ db.nodes[i].ParentID \in DOMAIN db.nodes)
        => \A w \in SecondaryWorlds :
              w \in db.nodes[i].ExistenceMap
              => w \in db.nodes[db.nodes[i].ParentID].ExistenceMap

---------------------------------------------------------------------------
(* The Store's contract *)

\* the parent ids and the paths a reader may ask for
AskedParents == {"", "root"} \cup StoreIDs \cup {e[1] : e \in db.index_parent_id}

AskedPaths == {"", "/", "/a", "/b"} \cup DOMAIN db.index_path

\* C5: every node GetChildrenByParentID(parentID, world) returns is found by
\* GetNodeByID under its id, as a record whose ParentID is parentID
C5_ChildrenHaveParent ==
    \A parentID \in AskedParents, world \in Worlds :
        \A children \in GetChildrenByParentID(db, parentID, world) :
            \A k \in 1..Len(children) :
                /\ GetNodeByID(db, children[k].ID).err = Nil
                /\ GetNodeByID(db, children[k].ID).node.ParentID = parentID

\* C6: a node GetNodeByPath(path, world) returns has Path = path
C6_PathMatches ==
    \A path \in AskedPaths, world \in {""} \cup Worlds :
        GetNodeByPath(db, path, world).err = Nil
        => GetNodeByPath(db, path, world).node.Path = path

\* C7: InsertNode of a node whose id is in the nodes bucket returns an error
\* and leaves the stored record as it was
C7_InsertConflict ==
    (call.op = "InsertNode" /\ call.id \in DOMAIN call.before.nodes)
    => /\ call.err # Nil
       /\ call.id \in DOMAIN db.nodes
       /\ db.nodes[call.id] = call.before.nodes[call.id]

\* the ids of a batch that were stored before the call: the skipped ones
skippedIDs == {i \in NodeIDs(call.nodes) : i \in DOMAIN call.before.nodes}

\* the first node of the batch with id i
firstWithID(nodes, i) == nodes[CHOOSE k \in 1..Len(nodes) :
                                  /\ nodes[k].ID = i
                                  /\ \A j \in 1..(k - 1) : nodes[j].ID # i]

\* every node of the batch that is not skipped has the keys bbolt needs
batchStorable ==
    \A k \in 1..Len(call.nodes) :
        call.nodes[k].ID \notin skippedIDs
        => call.nodes[k].ID # "" /\ call.nodes[k].Path # ""

C9_AllOrNothing ==
    (call.op \in {"InsertNode", "BulkInsertNodes"} /\ call.err # Nil)
    => db = call.before

\* BulkInsertNodes failed on its second node after its first, a new node with
\* both keys, was put in the transaction
C9_Witness ==
    /\ call.op = "BulkInsertNodes"
    /\ call.err # Nil
    /\ Len(call.nodes) = 2
    /\ call.nodes[1].ID # ""
    /\ call.nodes[1].Path # ""
    /\ call.nodes[1].ID \notin DOMAIN call.before.nodes

---------------------------------------------------------------------------
(* The tree in the store *)

\* C11: every stored node other than the root has a ParentID under which a
\* folder is stored
C11_ParentIsStoredFolder ==
    \A i \in DOMAIN db.nodes \ {"root"} :
        /\ db.nodes[i].ParentID \in DOMAIN db.nodes
        /\ db.nodes[db.nodes[i].ParentID].Type = NodeTypeFolder

\* C12: no two stored nodes have the same Path
C12_PathUnique ==
    \A i, j \in DOMAIN db.nodes :
        db.nodes[i].Path = db.nodes[j].Path => i = j

\* C13: every stored node exists in the primary world
C13_PrimaryAlways ==
    \A i \in DOMAIN db.nodes : "primary" \in db.nodes[i].ExistenceMap

---------------------------------------------------------------------------
(* The generator's contract *)

\* name and kind of the children, in order
namesAndKinds(children) ==
    [k \in 1..Len(children) |-> <<children[k].Name, children[k].Type>>]

\* name, kind, path, depth and existence map of the children, in order
allButID(children) ==
    [k \in 1..Len(children) |->
        <<children[k].Name, children[k].Type, children[k].Path,
          children[k].DepthLevel, children[k].ExistenceMap>>]

\* C14: two generators with the same seed and configuration, called with the
\* same parents and depths, return children equal in name, kind and order
C14_SameNamesAndKinds ==
    local["c1"].conf = local["c2"].conf
    => /\ namesAndKinds(local["c1"].children) = namesAndKinds(local["c2"].children)
       /\ local["c1"].rng = local["c2"].rng

\* after two calls, with two secondary worlds, both returned the same names
\* and kinds though not the same existence maps
C14_Witness ==
    /\ local["c1"].conf = local["c2"].conf
    /\ calls = 2
    /\ local["c1"].children # <<>>
    /\ allButID(local["c1"].children) # allButID(local["c2"].children)

\* C15: two generators with the same seed and configuration, called in the
\* same order, return children equal in every field, the existence map in
\* every secondary world included
C15_SameExistence ==
    local["c1"].conf = local["c2"].conf
    => allButID(local["c1"].children) = allButID(local["c2"].children)

\* C16: two generators whose configurations differ in the file-count bounds
\* only, called from the same state of the source with the same parent and
\* depth, return the same folders
C16_FoldersKeepWithFileBounds ==
    (/\ sameButFiles(local["c1"].conf, local["c2"].conf)
     /\ local["c1"].from = local["c2"].from)
    => namesAndKinds(selectType(local["c1"].children, NodeTypeFolder))
           = namesAndKinds(selectType(local["c2"].children, NodeTypeFolder))

\* the same call returned a folder to both, and a file to one of them only
C16_Witness ==
    /\ local["c1"].called
    /\ local["c1"].from = local["c2"].from
    /\ local["c1"].conf # local["c2"].conf
    /\ selectType(local["c1"].children, NodeTypeFolder) # <<>>
    /\ selectType(local["c1"].children, NodeTypeFile) = <<>>
    /\ selectType(local["c2"].children, NodeTypeFile) # <<>>

\* C17: a GenerateChildren call with depth >= max_depth returned no children
\* and no error
C17_EmptyAtMaxDepth ==
    \A c \in Callers :
        (local[c].called /\ local[c].depth >= local[c].conf.Seed.MaxDepth)
        => local[c].children = <<>> /\ local[c].err = Nil

\* a second call, made at depth = max_depth where max_depth is 2
C17_Witness ==
    /\ local["c1"].called
    /\ calls = 2
    /\ local["c1"].conf.Seed.MaxDepth = 2
    /\ local["c1"].depth = local["c1"].conf.Seed.MaxDepth
    /\ local["c1"].children = <<>>
    /\ local["c1"].err = Nil

---------------------------------------------------------------------------
(* Results of ListChildren and of GetChildrenByParentID *)

\* caller c holds the result of a ListChildren call
listed(c) == pc[c] = "done" /\ ret[c].op = "ListChildren"

\* C18: a ListChildren call that found no parent, or a parent that does not
\* exist in the requested world, returned success with no folders and no
\* files
C18_EmptySuccessWhenNoParent ==
    \A c \in Callers :
        (listed(c) /\ ret[c].Message \in {"Parent node not found",
                                          "Node does not exist in world"})
        => ret[c].Success /\ ret[c].Folders = <<>> /\ ret[c].Files = <<>>

\* C19: when the callers take turns, every ListChildren call returns a nil
\* error, and a result that is not a success carries a message
C19_FailureIsAResult ==
    \A c \in Callers :
        listed(c)
        => /\ ret[c].err = Nil
           /\ ~ret[c].Success => ret[c].Message # ""

\* one call failed in validation and another in resolution
C19_Witness ==
    /\ listed("c1") /\ ~ret["c1"].Success /\ ret["c1"].Message = "invalid request"
    /\ listed("c2") /\ ~ret["c2"].Success /\ ret["c2"].Message = "Parent node not found"

\* C20: every result of GetChildrenByParentID has its folders before its
\* files, and the nodes of one kind in the order of their names
C20_FoldersFirst ==
    \A parentID \in AskedParents, world \in Worlds :
        \A children \in GetChildrenByParentID(db, parentID, world) :
            \A k, l \in 1..Len(children) :
                k < l => /\ ~(children[k].Type = NodeTypeFile
                              /\ children[l].Type = NodeTypeFolder)
                         /\ children[k].Type = children[l].Type
                            => NameRank(children[k].Name) <= NameRank(children[l].Name)

---------------------------------------------------------------------------
(* The Store's queries against each other *)

\* the parent as GetParentAndChildren puts it first: the record stored under
\* parentID when it exists in world, nothing otherwise
parentInWorld(d, parentID, world) ==
    IF GetNodeByID(d, parentID).err = Nil
       /\ world \in GetNodeByID(d, parentID).node.ExistenceMap
    THEN <<GetNodeByID(d, parentID).node>>
    ELSE <<>>

C22_NotFoundOutsideWorld ==
    \A path \in AskedPaths, world \in {""} \cup Worlds :
        LET r == GetNodeByPath(db, path, world)
        IN  /\ (\A i \in DOMAIN db.nodes : db.nodes[i].Path # path) => r.err # Nil
            /\ r.err = Nil => world \in r.node.ExistenceMap

---------------------------------------------------------------------------
(* Deletion and reset *)

\* the last Store call was a DeleteNode(id) of a node other than the root
\* that returned nil
deleted == call.op = "DeleteNode" /\ call.err = Nil /\ call.id # "root"

\* C23: after DeleteNode(id) returned nil for a node other than the root, the
\* record and the three index entries made from it are gone: GetNodeByID(id)
\* fails, GetNodeByPath on the node's path does not return it in any world,
\* and GetChildrenByParentID on its parent does not list it in any world
C23_DeletedIsGone ==
    deleted =>
        LET node == call.before.nodes[call.id]
        IN  /\ GetNodeByID(db, call.id).err # Nil
            /\ <<node.ParentID, node.ID>> \notin db.index_parent_id
            /\ node.Path \notin DOMAIN db.index_path
            /\ <<node.ParentPath, node.ID>> \notin db.index_parent_path
            /\ \A world \in {""} \cup Worlds :
                  GetNodeByPath(db, node.Path, world).err = Nil
                  => GetNodeByPath(db, node.Path, world).node.ID # call.id
            /\ \A world \in Worlds :
                  \A children \in GetChildrenByParentID(db, node.ParentID, world) :
                      call.id \notin NodeIDs(children)

\* a node that was found by its path and listed under its parent has been
\* deleted
C23_Witness ==
    /\ deleted
    /\ LET node == call.before.nodes[call.id]
       IN  /\ GetNodeByPath(call.before, node.Path, "primary").err = Nil
           /\ GetNodeByPath(call.before, node.Path, "primary").node.ID = call.id
           /\ \E children \in GetChildrenByParentID(call.before, node.ParentID, "primary") :
                 call.id \in NodeIDs(children)

\* the request names the stored root, by id or by path and world
addressesRoot(req) ==
    \/ req.ID = "root" /\ "root" \in DOMAIN db.nodes
    \/ /\ req.ID = "" /\ req.Path # "" /\ req.TableName # ""
       /\ req.Path \in DOMAIN db.index_path
       /\ db.index_path[req.Path] = "root"
       /\ "root" \in DOMAIN db.nodes
       /\ req.TableName \in db.nodes["root"].ExistenceMap

\* C24: a DeleteNode request that names the stored root, by id or by path and
\* world, returns "cannot delete root node" without touching the store, and
\* the Store call of a DeleteNode is never for the root and leaves the root
\* stored
C24_RootNotDeleted ==
    [][\A c \in Callers :
          /\ \A req \in Requests :
                (DeleteNodeResolve(c, req) /\ addressesRoot(req))
                => /\ pc'[c] = "done"
                   /\ ret'[c].op = "DeleteNode"
                   /\ ~ret'[c].Success
                   /\ ret'[c].err = "cannot delete root node"
                   /\ db' = db
          /\ DeleteNodeDelete(c)
             => /\ local[c].parent.ID # "root"
                /\ "root" \in DOMAIN db.nodes => "root" \in DOMAIN db'.nodes]_vars

\* both callers were refused the deletion of the root, which is stored
C24_Witness ==
    /\ \A c \in Callers :
          /\ pc[c] = "done"
          /\ ret[c].op = "DeleteNode"
          /\ ret[c].err = "cannot delete root node"
    /\ GetNodeByID(db, "root").err = Nil

\* C25: when the callers take turns, the store right after the second Store
\* call of a Reset (DeleteAllNodes, then CreateRootNode) holds exactly one
\* record, under the id "root" and existing in every configured world, and
\* the indexes hold the entries of that record only
C25_OnlyRootAfterReset ==
    [][\A c \in Callers :
          ResetCreateRoot(c)
          => /\ ret'[c].Success
             /\ DOMAIN db'.nodes = {"root"}
             /\ db'.nodes["root"].ID = "root"
             /\ db'.nodes["root"].ExistenceMap = {"primary"} \cup DOMAIN cfg.SecondaryTables
             /\ db'.index_parent_id = {<<"", "root">>}
             /\ DOMAIN db'.index_path = {"/"}
             /\ db'.index_path["/"] = "root"
             /\ db'.index_parent_path = {<<"", "root">>}]_vars

\* a Reset has returned on a store that held another node before it
C25_Witness ==
    \E c \in Callers :
        /\ pc[c] = "done"
        /\ ret[c].op = "Reset"
        /\ ret[c].Success
        /\ nextUuid > 0
        /\ DOMAIN db.nodes = {"root"}

\* the last Store call was an attempt to create the root
rootAttempt == call.op \in {"CreateRootNode", "VerifyAndInitialize"}

\* C26: an attempt to create the root, by CreateRootNode or at startup, on a
\* store that holds a root returns nil and leaves the four buckets as they
\* were; after any attempt exactly one record has the id "root"
C26_RootCreationIdempotent ==
    rootAttempt =>
        /\ call.err = Nil
        /\ "root" \in DOMAIN call.before.nodes => db = call.before
        /\ Cardinality({i \in DOMAIN db.nodes : db.nodes[i].ID = "root"}) = 1

\* CreateRootNode was called on a store that held the root, changed since its
\* creation, and another node
C26_Witness ==
    /\ call.op = "CreateRootNode"
    /\ "root" \in DOMAIN call.before.nodes
    /\ call.before.nodes["root"] # RootNode
    /\ DOMAIN call.before.nodes # {"root"}
    /\ call.err = Nil

---------------------------------------------------------------------------
(* Requests *)

\* the two addressing modes of a request
byID(req) == req.ID # ""

byPath(req) == req.Path # "" /\ req.TableName # ""

\* caller c starts an SDK call that takes the request req
starts(c, req) ==
    \/ ListChildrenResolve(c, req)
    \/ \E name \in UserNames \cup {""} : CreateFolderResolve(c, req, name)
    \/ \E name \in UserNames \cup {""}, dataLen \in {0, 1} :
          UploadFileResolve(c, req, name, dataLen)
    \/ DeleteNodeResolve(c, req)

\* the result r is the failure of the request's validation
invalidRequest(r) ==
    \/ r.op = "ListChildren" /\ ~r.Success /\ r.Message = "invalid request"
    \/ /\ r.op \in {"CreateFolder", "UploadFile", "DeleteNode"}
       /\ r.err = "either ID or (Path + TableName) must be provided"

inPrimary(req) == [req EXCEPT !.TableName = "primary"]

\* what C28 says of the requests in the set R, all with an empty world: the
\* first step of a call is the first step of the same call with the world
\* "primary"; a ListChildren that goes on to its query (and keeps its own
\* request) goes on with the parent and the world the other would
asInPrimary(c, R) ==
    \A req \in R :
          /\ ListChildrenResolve(c, req)
             => \/ pc'[c] = "done" /\ ListChildrenResolve(c, inPrimary(req))
                \/ LET r == resolveNodeAndWorld(db, inPrimary(req))
                   IN  /\ pc'[c] = "lc_query"
                       /\ ValidateIdentifier(inPrimary(req)) = Nil
                       /\ r.err = Nil
                       /\ r.world \in r.node.ExistenceMap
                       /\ local'[c].parent = r.node
                       /\ local'[c].world = r.world
          /\ \A name \in UserNames \cup {""} :
                CreateFolderResolve(c, req, name)
                => CreateFolderResolve(c, inPrimary(req), name)
          /\ \A name \in UserNames \cup {""}, dataLen \in {0, 1} :
                UploadFileResolve(c, req, name, dataLen)
                => UploadFileResolve(c, inPrimary(req), name, dataLen)
          /\ DeleteNodeResolve(c, req) => DeleteNodeResolve(c, inPrimary(req))

---------------------------------------------------------------------------
(* DB.mu: every exported method of DB that reads or writes the buckets      *)
(* begins with db.mu.Lock() and defer db.mu.Unlock().  The callers of Spec, *)
(* with each Store call in three steps: Lock, the method body, Unlock.      *)

\* where a caller's next step is a Store call: resolveNodeAndWorld or
\* DeleteAllNodes ("idle"), GetParentAndChildren, BulkInsertNodes,
\* InsertNode, DeleteNode, CreateRootNode
StorePcs ==
    {"idle", "lc_query", "lc_insert", "cf_insert", "uf_insert", "dn_delete",
     "reset_root"}

\* a Lock that does not wait for the mutex
canLock_always(m) == TRUE

\* sync.Mutex.Lock returns only when the mutex is unlocked
canLock(m) == ~m

\* an Unlock that leaves the mutex locked
unlock_never(m) == m

\* sync.Mutex.Unlock
unlock(m) == FALSE

\* caller c is inside a method of DB, between Lock and Unlock
inCritical(c) == section[c] # "out"

\* caller c holds the lock and the body of the method has not run
inside(c) == section[c] = pc[c]

\* db.mu.Lock() at the head of the method caller c calls next
Lock(c) ==
    /\ section[c] = "out"
    /\ pc[c] \in StorePcs
    /\ pc[c] = "idle" => calls < MaxCalls
    /\ canLock(mu)
    /\ mu' = TRUE
    /\ section' = [section EXCEPT ![c] = pc[c]]
    /\ UNCHANGED <<db, rng, nextUuid, pc, local, ret, calls, call>>

\* the deferred db.mu.Unlock(), on whatever path the body returned
Unlock(c) ==
    /\ inCritical(c)
    /\ ~inside(c)
    /\ mu' = unlock(mu)
    /\ section' = [section EXCEPT ![c] = "out"]
    /\ UNCHANGED <<db, rng, nextUuid, pc, local, ret, calls, call>>

\* the body of the method, for the first Store call of an SDK call (with the
\* validation before it) and for the later ones
LockedStart(c) == inside(c) /\ Start(c)

LockedQuery(c) == inside(c) /\ ListChildrenQuery(c)

LockedBulkInsert(c) == inside(c) /\ ListChildrenInsert(c)

LockedInsert(c) == inside(c) /\ (CreateFolderInsert(c) \/ UploadFileInsert(c))

LockedDelete(c) == inside(c) /\ DeleteNodeDelete(c)

LockedCreateRoot(c) == inside(c) /\ ResetCreateRoot(c)

\* the steps of SpectraFS between Store calls
Generate(c) == section[c] = "out" /\ ListChildrenGenerate(c)

Returned(c) == section[c] = "out" /\ Return(c)

LockNext ==
    \E c \in Callers :
        \/ Lock(c)
        \/ LockedStart(c)
        \/ LockedQuery(c)
        \/ LockedBulkInsert(c)
        \/ LockedInsert(c)
        \/ LockedDelete(c)
        \/ LockedCreateRoot(c)
        \/ Unlock(c)
        \/ Generate(c)
        \/ Returned(c)

LockSpec == Init /\ [][LockNext]_vars

\* the body of the method caller c is inside
lockedBody(c) ==
    \/ LockedStart(c)
    \/ LockedQuery(c)
    \/ LockedBulkInsert(c)
    \/ LockedInsert(c)
    \/ LockedDelete(c)
    \/ LockedCreateRoot(c)

\* caller c is inside an SDK call, at a Store call, and does not hold the lock
wanting(c) == section[c] = "out" /\ pc[c] \in StorePcs \ {"idle"}

\* scheduling: a goroutine inside a method runs it to its return, and a
\* goroutine blocked in Lock gets the mutex after finitely many hand-overs
\* (sync.Mutex hands the mutex to a waiter that has waited too long)
LockLiveSpec ==
    /\ LockSpec
    /\ \A c \in Callers :
          /\ WF_vars(lockedBody(c))
          /\ WF_vars(Unlock(c))
          /\ SF_vars(wanting(c) /\ Lock(c))

\* C29: at no time are two callers inside methods of DB, between Lock and
\* Unlock, whatever the methods read or write; and while a caller is
\* inside one the mutex is locked
C29_OneInCritical ==
    /\ \A c, o \in Callers : c # o => ~(inCritical(c) /\ inCritical(o))
    /\ (\E c \in Callers : inCritical(c)) => mu

\* one caller is inside BulkInsertNodes, about to write, while the other has
\* children to insert too and is outside
C29_Witness ==
    \E c, o \in Callers :
        /\ inside(c) /\ pc[c] = "lc_insert"
        /\ section[o] = "out" /\ pc[o] = "lc_insert"

\* C30: the mutex is locked only while some caller is inside a method of DB;
\* a caller whose method body has run does nothing before its Unlock, so the
\* lock covers one Store call, and GenerateChildren runs with the caller
\* outside; and a caller at a Store call eventually gets the lock
C30_LockReleased ==
    /\ [](mu => \E c \in Callers : inCritical(c))
    /\ [][\A c \in Callers :
             /\ (inCritical(c) /\ ~inside(c))
                => pc'[c] = pc[c] /\ local'[c] = local[c]
             /\ ListChildrenGenerate(c) => ~inCritical(c)]_vars
    /\ \A c \in Callers :
          wanting(c) ~> inCritical(c)

\* one caller waits at a Store call while the other is inside a method whose
\* body has run, before its Unlock
C30_Witness ==
    \E c, o \in Callers :
        /\ wanting(c)
        /\ inCritical(o) /\ ~inside(o)
        /\ mu

---------------------------------------------------------------------------
(* Callers using one SpectraFS concurrently *)

\* the next step of caller c reads or writes SpectraFS.rng: GenerateChildren
\* below max depth draws from it, CreateFolder and UploadFile roll it for each
\* secondary world the parent exists in, Reset assigns it
accessesRng(c) ==
    \/ pc[c] = "lc_generate" /\ local[c].parent.DepthLevel < cfg.Seed.MaxDepth
    \/ /\ pc[c] \in {"cf_insert", "uf_insert"}
       /\ local[c].parent.ExistenceMap \cap SecondaryWorlds # {}
    \/ pc[c] = "reset_root"

\* C31: no two callers are at the same time at steps that read or write
\* SpectraFS.rng, which no lock guards
C31_RngNotShared ==
    \A c, o \in Callers :
        c # o => ~(accessesRng(c) /\ accessesRng(o))

---------------------------------------------------------------------------
(* The children of one GenerateChildren call *)

\* C32: every child a GenerateChildren(parent, depth, ...) call returned has
\* the parent's ID as ParentID, the parent's DepthLevel + 1 as DepthLevel and
\* the join of the parent's Path and its own Name as Path
C32_ChildOfParent ==
    \A c \in Callers :
        local[c].called
        => \A k \in 1..Len(local[c].children) :
              LET child == local[c].children[k]
              IN  /\ child.ParentID = local[c].parent.ID
                  /\ child.DepthLevel = local[c].parent.DepthLevel + 1
                  /\ child.Path = JoinPath(local[c].parent.Path, child.Name)

\* C32 as the code has it: every child a GenerateChildren(parent, depth, ...)
\* call returned has the parent's ID as ParentID, depth + 1 as DepthLevel
\* (the parent's DepthLevel + 1 when the call was given the parent's own
\* DepthLevel) and the join of the parent's Path and its own Name as Path
C32_ChildOfParentAtDepth ==
    \A c \in Callers :
        local[c].called
        => \A k \in 1..Len(local[c].children) :
              LET child == local[c].children[k]
              IN  /\ child.ParentID = local[c].parent.ID
                  /\ child.DepthLevel = local[c].depth + 1
                  /\ local[c].depth = local[c].parent.DepthLevel
                     => child.DepthLevel = local[c].parent.DepthLevel + 1
                  /\ child.Path = JoinPath(local[c].parent.Path, child.Name)

\* a call with a folder under the root as parent and that folder's depth
\* returned a folder and a file
C32_Witness ==
    /\ local["c2"].called
    /\ local["c2"].parent.ID = "u1"
    /\ local["c2"].depth = local["c2"].parent.DepthLevel
    /\ selectType(local["c2"].children, NodeTypeFolder) # <<>>
    /\ selectType(local["c2"].children, NodeTypeFile) # <<>>

---------------------------------------------------------------------------
(* What a ListChildren result holds *)

\* the nodes of the result caller c holds, folders then files
resultNodes(r) == r.Folders \o r.Files

\* C33: at the step that makes a successful ListChildren(parent, world)
\* result, every node of the result is stored, under its id and as returned,
\* with the parent's id as ParentID and existing in world; Folders holds
\* folders only and Files holds files only
C33_ListedAreStoredChildren ==
    [][\A c \in Callers :
          (/\ pc[c] # "done"
           /\ pc'[c] = "done"
           /\ ret'[c].op = "ListChildren"
           /\ ret'[c].Success)
          => /\ \A k \in 1..Len(resultNodes(ret'[c])) :
                   LET node == resultNodes(ret'[c])[k]
                   IN  /\ GetNodeByID(db', node.ID).err = Nil
                       /\ GetNodeByID(db', node.ID).node = node
                       /\ node.ParentID = ret'[c].parentID
                       /\ ret'[c].world \in node.ExistenceMap
             /\ \A k \in 1..Len(ret'[c].Folders) :
                   ret'[c].Folders[k].Type = NodeTypeFolder
             /\ \A k \in 1..Len(ret'[c].Files) :
                   ret'[c].Files[k].Type = NodeTypeFile]_vars

\* one caller holds the children it generated and stored, the other the
\* children it found stored under the same parent
C33_Witness ==
    \E c, o \in Callers :
        /\ listed(c) /\ ret[c].Success /\ ret[c].inserted # {}
        /\ listed(o) /\ ret[o].Success /\ ret[o].inserted = {}
        /\ ret[c].parentID = ret[o].parentID
        /\ resultNodes(ret[c]) # <<>>
        /\ resultNodes(ret[o]) # <<>>

---------------------------------------------------------------------------
(* Reset among other callers *)

\* the step of caller c is a Store read of a ListChildren call: the
\* resolution of a valid request or the query for the children
listReads(c) ==
    \/ \E req \in Requests : ValidateIdentifier(req) = Nil /\ ListChildrenResolve(c, req)
    \/ ListChildrenQuery(c)

\* C34: every Store read of a ListChildren call finds the root stored,
\* whatever the other callers are doing, and the root is stored when a Reset
\* returns
C34_RootNeverMissing ==
    [][\A c \in Callers :
          /\ listReads(c) => GetNodeByID(db, "root").err = Nil
          /\ (Return(c) /\ ret[c].op = "Reset" /\ ret[c].Success)
             => GetNodeByID(db, "root").err = Nil]_vars

---------------------------------------------------------------------------
(* ListChildren while another caller deletes the parent *)

\* the node CreateFolder or UploadFile builds under parent, as the n-th UUID,
\* when the source is in state x, and the source after the rolls
createdNode(parent, n, name, type, x) ==
    LET order == CHOOSE o \in rangeOrders(SecondaryWorlds) : TRUE
        e == rollUnderParent(order, x, parent, {"primary"})
    IN  [node |-> [ID |-> Uuid(n), ParentID |-> parent.ID, Name |-> name,
                   Path |-> JoinPath(parent.Path, name), ParentPath |-> parent.Path,
                   Type |-> type, DepthLevel |-> parent.DepthLevel + 1,
                   ExistenceMap |-> e.ExistenceMap, Batch |-> 0],
         rng |-> e.rng]

\* a new SpectraFS after CreateFolder{root, "folder_1"}, CreateFolder{u1,
\* "folder_1"} and UploadFile{u1, "file_1.txt"}, made one after the other: a
\* folder under the root with a folder and a file in it
Populated ==
    LET n1 == createdNode(RootNode, 1, "folder_1", NodeTypeFolder, NewRNG(cfg.Seed.Seed))
        n2 == createdNode(n1.node, 2, "folder_1", NodeTypeFolder, n1.rng)
        n3 == createdNode(n1.node, 3, "file_1.txt", NodeTypeFile, n2.rng)
        d0 == createRootNodeInternal(EmptyDB).db
        d1 == InsertNode(d0, n1.node).db
        d2 == InsertNode(d1, n2.node).db
    IN  [db |-> InsertNode(d2, n3.node).db, rng |-> n3.rng, nextUuid |-> 3]

PopulatedInit ==
    /\ db = Populated.db
    /\ rng = Populated.rng
    /\ nextUuid = Populated.nextUuid
    /\ pc = [c \in Callers |-> "idle"]
    /\ local = [c \in Callers |-> NoLocal]
    /\ ret = [c \in Callers |-> NoRet]
    /\ calls = 0
    /\ call = NoCall
    /\ mu = FALSE
    /\ section = [c \in Callers |-> "out"]

\* callers using the populated SpectraFS concurrently
PopulatedSpec == PopulatedInit /\ [][Next]_vars

\* C35: at the step at which ListChildren(parent, world) returns the children
\* its query found, every node stored with the parent's id as ParentID and
\* existing in world is in the result, whatever other callers did since the
\* parent was resolved
C35_NoChildOmitted ==
    [][\A c \in Callers :
          (ListChildrenQuery(c) /\ pc'[c] = "done" /\ ret'[c].Success)
          => \A node \in scanChildren(db', ret'[c].parentID, ret'[c].world) :
                node.ID \in NodeIDs(resultNodes(ret'[c]))]_vars

---------------------------------------------------------------------------
(* ListChildren on a parent whose children are stored *)

\* C36: when the query of a ListChildren(parent, world) call runs on a store
\* that holds a child of the parent existing in world, the call returns what
\* the query found: it writes nothing and does not go on to GenerateChildren
\* and BulkInsertNodes, the steps of ListChildren that draw from the source
\* and write the store
C36_NoWriteWhenChildStored ==
    [][\A c \in Callers :
          (/\ ListChildrenQuery(c)
           /\ CheckChildrenExist(db, local[c].parent.ID, local[c].world))
          => /\ pc'[c] = "done"
             /\ ret'[c].Success
             /\ db' = db
             /\ rng' = rng]_vars

---------------------------------------------------------------------------
(* What DeleteNode and UpdateExistenceMap leave alone *)

\* GetNodeByPath(path, world) on store d returns the record with id i
foundByPath(d, path, world, i) ==
    /\ GetNodeByPath(d, path, world).err = Nil
    /\ GetNodeByPath(d, path, world).node.ID = i

\* C37: after a DeleteNode(id) that returned nil, every other record stored
\* before the call is still returned by GetNodeByID, as it was; by
\* GetNodeByPath on its path, in each world where it exists, if it was
\* before; and among the children of its parent in the worlds where it was
C37_DeleteLeavesOthers ==
    (call.op = "DeleteNode" /\ call.err = Nil)
    => \A i \in DOMAIN call.before.nodes \ {call.id} :
          LET node == call.before.nodes[i]
          IN  /\ GetNodeByID(db, i).err = Nil
              /\ GetNodeByID(db, i).node = node
              /\ \A world \in node.ExistenceMap :
                    /\ foundByPath(call.before, node.Path, world, i)
                       => foundByPath(db, node.Path, world, i)
                    /\ node \in scanChildren(call.before, node.ParentID, world)
                       => node \in scanChildren(db, node.ParentID, world)

\* a record without its existence map
identityOf(node) == [node EXCEPT !.ExistenceMap = {}]

\* C38: UpdateExistenceMap(id, map) fails exactly when no record is stored
\* under id, and then the four buckets are as before; when it returns nil the
\* record under id differs from the one before in its ExistenceMap at most,
\* every other record is as before and so are the three indexes
C38_UpdateChangesExistenceOnly ==
    call.op = "UpdateExistenceMap"
    => IF call.id \notin DOMAIN call.before.nodes
       THEN call.err # Nil /\ db = call.before
       ELSE /\ call.err = Nil
            /\ DOMAIN db.nodes = DOMAIN call.before.nodes
            /\ identityOf(db.nodes[call.id]) = identityOf(call.before.nodes[call.id])
            /\ \A i \in DOMAIN db.nodes \ {call.id} : db.nodes[i] = call.before.nodes[i]
            /\ db.index_parent_id = call.before.index_parent_id
            /\ db.index_path = call.before.index_path
            /\ db.index_parent_path = call.before.index_parent_path

\* the existence map of a record was changed while the path index leads from
\* the record's path to another record
C38_Witness ==
    /\ call.op = "UpdateExistenceMap"
    /\ call.err = Nil
    /\ db.nodes[call.id].ExistenceMap # call.before.nodes[call.id].ExistenceMap
    /\ db.nodes[call.id].Path \in DOMAIN db.index_path
    /\ db.index_path[db.nodes[call.id].Path] # call.id

---------------------------------------------------------------------------
(* A store filled by ListChildren alone *)

\* a new SpectraFS after one ListChildren{ParentID: "root"}: the root and the
\* children generated under it
Listed ==
    {[db |-> BulkInsertNodes(createRootNodeInternal(EmptyDB).db, g.children).db,
      rng |-> g.rng, nextUuid |-> Len(g.children)] :
        g \in GenerateChildren(RootNode, RootNode.DepthLevel, NewRNG(cfg.Seed.Seed), 0, cfg)}

ListedInit ==
    /\ \E s \in Listed :
          /\ db = s.db
          /\ rng = s.rng
          /\ nextUuid = s.nextUuid
    /\ pc = [c \in Callers |-> "idle"]
    /\ local = [c \in Callers |-> NoLocal]
    /\ ret = [c \in Callers |-> NoRet]
    /\ calls = 0
    /\ call = NoCall
    /\ mu = FALSE
    /\ section = [c \in Callers |-> "out"]

\* callers that call nothing but ListChildren, concurrently
ListNext ==
    \E c \in Callers :
        \/ \E req \in Requests : ListChildrenResolve(c, req)
        \/ ListChildrenQuery(c)
        \/ ListChildrenGenerate(c)
        \/ ListChildrenInsert(c)
        \/ Return(c)

ListSpec == ListedInit /\ [][ListNext]_vars

\* C39: in a store filled by the root bootstrap and ListChildren calls, every
\* node has DepthLevel <= max_depth, and no node with DepthLevel >= max_depth
\* is the ParentID of a stored node or of a parent index entry
C39_DepthBounded ==
    \A i \in DOMAIN db.nodes :
        /\ db.nodes[i].DepthLevel <= cfg.Seed.MaxDepth
        /\ db.nodes[i].DepthLevel >= cfg.Seed.MaxDepth
           => /\ \A j \in DOMAIN db.nodes : db.nodes[j].ParentID # i
              /\ \A e \in db.index_parent_id : e[1] # i

\* GenerateChildren was called for a stored folder at max depth, found without
\* children, and returned none
C39_Witness ==
    \E c \in Callers :
        /\ pc[c] = "lc_insert"
        /\ local[c].parent.ID \in DOMAIN db.nodes
        /\ local[c].parent.Type = NodeTypeFolder
        /\ local[c].parent.DepthLevel = cfg.Seed.MaxDepth
        /\ local[c].generated = <<>>

---------------------------------------------------------------------------
(* Reset and the seeded source *)

\* callers taking turns on a SpectraFS whose root has been listed once
ListedSeqSpec == ListedInit /\ [][SeqNext]_vars

\* what ListChildren(root, world) returns on a new SpectraFS, as names and
\* kinds in order: one per outcome of the first GenerateChildren call
freshListing(world) ==
    {LET children == selectWorld(g.children, world)
     IN  [generated |-> namesAndKinds(g.children),
          listed |-> namesAndKinds(selectType(children, NodeTypeFolder)
                                   \o selectType(children, NodeTypeFile))] :
        g \in GenerateChildren(RootNode, RootNode.DepthLevel,
                               NewRNG(cfg.Seed.Seed), 0, cfg)}

\* another caller holds the result of a Reset that has returned nil
afterReset(c) ==
    \E o \in Callers \ {c} : pc[o] = "done" /\ ret[o].op = "Reset" /\ ret[o].Success

\* the store is as NewSpectraFS and Reset leave it: the root alone
rootAlone(d) == d = createRootNodeInternal(EmptyDB).db

\* C40: when the callers take turns, Reset leaves the store and the source as
\* NewSpectraFS does (the root alone, the source seeded with the configured
\* seed), and a ListChildren that finds them so after a Reset generates and
\* returns children equal in name, kind and order to those of the first
\* ListChildren of a new SpectraFS for the same world (one secondary world is
\* configured; with several, which children exist in a secondary world also
\* depends on the order of the range over cfg.SecondaryTables, on a new
\* SpectraFS as after Reset)
C40_ResetAsFresh ==
    [][\A c \in Callers :
          /\ ResetCreateRoot(c)
             => /\ rootAlone(db')
                /\ rng' = NewRNG(cfg.Seed.Seed)
          /\ (/\ ListChildrenGenerate(c)
              /\ afterReset(c)
              /\ rootAlone(db)
              /\ rng = NewRNG(cfg.Seed.Seed))
             => \E f \in freshListing(local[c].world) :
                   namesAndKinds(local'[c].generated) = f.generated
          /\ (/\ ListChildrenInsert(c)
              /\ afterReset(c)
              /\ rootAlone(db))
             => /\ ret'[c].Success
                /\ \A f \in freshListing(local[c].world) :
                      namesAndKinds(local[c].generated) = f.generated
                      => namesAndKinds(resultNodes(ret'[c])) = f.listed]_vars

\* after a Reset of a store whose root had children and whose source had
\* advanced, a ListChildren of the root has generated and returned children
C40_Witness ==
    \E c \in Callers :
        /\ afterReset(c)
        /\ listed(c) /\ ret[c].Success
        /\ ret[c].parentID = "root"
        /\ ret[c].inserted # {}
        /\ resultNodes(ret[c]) # <<>>
        /\ \A s \in Listed : s.rng # NewRNG(cfg.Seed.Seed)

====
